---- MODULE Spec2Model ----
(***************************************************************************)
(* Model of src/stash_api.rs: the Api client session (api_url, api_key,    *)
(* client) and its three async operations find_tags, find_markers and      *)
(* find_performers.  Each operation runs in three atomic steps separated   *)
(* by its two suspension points (`send().await` and `json().await`); the   *)
(* server and the network are the environment.                             *)
(***************************************************************************)
EXTENDS Integers, Sequences, FiniteSets, TLC

VARIABLES
    session,   \* Option<Api>: the client session, None before construction
    ctor,      \* history: how the session was constructed and from which arguments
    pc,        \* pc[c]: position of call c ("idle", "send_await", "json_await", "done")
    args,      \* args[c]: operation and arguments of call c
    wire,      \* wire[c]: Option<request> call c put on the network
    sent,      \* sent[c]: number of HTTP requests call c has issued
    reply,     \* reply[c]: what the network holds in answer to call c's request
    decoded,   \* decoded[c]: TRUE once call c has invoked response.json()
    outcome    \* outcome[c]: how call c ended

vars == <<session, ctor, pc, args, wire, sent, reply, decoded, outcome>>

(***************************************************************************)
(* Bounds of the model.                                                    *)
(***************************************************************************)
MaxIds == 2      \* longest identifier list passed to find_markers
MaxItems == 2    \* longest collection the server returns
NumCalls == 2    \* calls that may be in flight at once on the session

Calls == 1..NumCalls
Solo == {1}

SeqsUpTo(S, n) == UNION {[1..k -> S] : k \in 0..n}

(***************************************************************************)
(* Rust's Option and Result.                                               *)
(***************************************************************************)
None == [some |-> FALSE]
Some(v) == [some |-> TRUE, value |-> v]

ResOk(v) == [ok |-> TRUE, value |-> v]
ResErr(k, s) == [ok |-> FALSE, kind |-> k, status |-> s]

\* first occurrences of s, in order
RECURSIVE Dedup(_)
Dedup(s) ==
    IF s = <<>>
       THEN <<>>
       ELSE LET r == Dedup(SubSeq(s, 1, Len(s) - 1))
            IN  IF \E i \in 1..Len(r) : r[i] = s[Len(s)]
                   THEN r
                   ELSE Append(r, s[Len(s)])

(***************************************************************************)
(* Input domains.                                                          *)
(***************************************************************************)
Urls == {"http://stash:9999", "http://stash:9999/"}
Keys == {"key-A"}
Configs == {[stash_url |-> "http://cfg:9999/", api_key |-> "key-C"]}
ConfigResults == {[ok |-> FALSE, kind |-> "Config", status |-> 0]}
                   \cup {ResOk(cfg) : cfg \in Configs}

FilterMode == {"Performers", "Tags"}
IdValues == {"1", "2"}
IdLists == SeqsUpTo(IdValues, MaxIds)

Statuses == {200, 304, 401}
Items == {[id |-> "1"], [id |-> "2"]}
ItemLists == SeqsUpTo(Items, MaxItems)
\* the JSON shapes of `data` the remote schema defines for the three queries
DataShapes == {[root |-> "findTags", list |-> "tags"],
               [root |-> "findSceneMarkers", list |-> "sceneMarkers"],
               [root |-> "findPerformers", list |-> "performers"]}
WireData == {[root |-> s.root, list |-> s.list, items |-> l] :
                s \in DataShapes, l \in ItemLists}
Garbage == [kind |-> "garbage", data |-> None, errors |-> None]
Aborted == [kind |-> "aborted", data |-> None, errors |-> None]
Envelope(d, e) == [kind |-> "json", data |-> d, errors |-> e]
ErrorLists == {None, Some(<<"remote error">>)}
Bodies == {Garbage, Aborted}
            \cup {Envelope(d, e) : d \in {None} \cup {Some(w) : w \in WireData},
                                   e \in ErrorLists}

NoReply == [kind |-> "none", status |-> 0, body |-> Garbage]
NetErr == [kind |-> "neterr", status |-> 0, body |-> Garbage]
Http(s, b) == [kind |-> "http", status |-> s, body |-> b]

NoArgs == [op |-> "none", ids |-> <<>>, mode |-> "none"]
NoOutcome == [kind |-> "none", status |-> 0, value |-> <<>>]
OutOk(v) == [kind |-> "Ok", status |-> 0, value |-> v]
OutErr(k, s) == [kind |-> k, status |-> s, value |-> <<>>]
Panicked == [kind |-> "Panic", status |-> 0, value |-> <<>>]
NoCtor == [how |-> "none", ok |-> FALSE, url |-> "", key |-> ""]

(***************************************************************************)
(* Construction: Api::new, Api::from_config, Api::load_config.             *)
(***************************************************************************)
ApiNew(url, api_key) == [api_url |-> url, api_key |-> api_key, client |-> "Client"]

ApiFromConfig(config) == ApiNew(config.stash_url, config.api_key)

New(url, api_key) ==
    /\ ~session.some
    /\ session' = Some(ApiNew(url, api_key))
    /\ ctor' = [how |-> "new", ok |-> TRUE, url |-> url, key |-> api_key]
    /\ UNCHANGED <<pc, args, wire, sent, reply, decoded, outcome>>

FromConfig(config) ==
    /\ ~session.some
    /\ session' = Some(ApiFromConfig(config))
    /\ ctor' = [how |-> "from_config", ok |-> TRUE,
                url |-> config.stash_url, key |-> config.api_key]
    /\ UNCHANGED <<pc, args, wire, sent, reply, decoded, outcome>>

\* `Config::get().await?` either fails, and the error is propagated, or yields
\* the configuration the session is built from.
LoadConfig(res) ==
    /\ ~session.some
    /\ IF res.ok
          THEN /\ session' = Some(ApiNew(res.value.stash_url, res.value.api_key))
               /\ ctor' = [how |-> "load_config", ok |-> TRUE,
                           url |-> res.value.stash_url, key |-> res.value.api_key]
          ELSE /\ session' = session
               /\ ctor' = [how |-> "load_config", ok |-> FALSE, url |-> "", key |-> ""]
    /\ UNCHANGED <<pc, args, wire, sent, reply, decoded, outcome>>

Init ==
    /\ session = None
    /\ ctor = NoCtor
    /\ pc = [c \in Calls |-> "idle"]
    /\ args = [c \in Calls |-> NoArgs]
    /\ wire = [c \in Calls |-> None]
    /\ sent = [c \in Calls |-> 0]
    /\ reply = [c \in Calls |-> NoReply]
    /\ decoded = [c \in Calls |-> FALSE]
    /\ outcome = [c \in Calls |-> NoOutcome]

(***************************************************************************)
(* Request construction.                                                   *)
(***************************************************************************)
UnboundedPageSize == -1

\* find_tags_query::Variables {} and find_performers_query::Variables {}:
\* a struct without fields.
EmptyVariables == [f \in {} |-> None]

AbsentSceneFilter ==
    [created_at |-> None, scene_created_at |-> None, scene_updated_at |-> None,
     updated_at |-> None, performers |-> None, scene_date |-> None,
     scene_tags |-> None, tag_id |-> None, tags |-> None]

\* variant: the Tags branch also fills the scene-level tags criterion
BuildSceneFilterSceneTags(ids, mode) ==
    CASE mode = "Performers" ->
           [AbsentSceneFilter EXCEPT !.performers =
                Some([modifier |-> "INCLUDES", value |-> Some(ids)])]
      [] mode = "Tags" ->
           [AbsentSceneFilter EXCEPT
                !.tags = Some([depth |-> None, modifier |-> "INCLUDES", value |-> Some(ids)]),
                !.scene_tags = Some([depth |-> None, modifier |-> "INCLUDES",
                                     value |-> Some(ids)])]

\* variant: the Performers branch drops repeated identifiers
BuildSceneFilterDedup(ids, mode) ==
    CASE mode = "Performers" ->
           [AbsentSceneFilter EXCEPT !.performers =
                Some([modifier |-> "INCLUDES", value |-> Some(Dedup(ids))])]
      [] mode = "Tags" ->
           [AbsentSceneFilter EXCEPT !.tags =
                Some([depth |-> None, modifier |-> "INCLUDES", value |-> Some(ids)])]

\* variant: the Tags branch asks for the direct children too
BuildSceneFilterDepth(ids, mode) ==
    CASE mode = "Performers" ->
           [AbsentSceneFilter EXCEPT !.performers =
                Some([modifier |-> "INCLUDES", value |-> Some(ids)])]
      [] mode = "Tags" ->
           [AbsentSceneFilter EXCEPT !.tags =
                Some([depth |-> Some(1), modifier |-> "INCLUDES", value |-> Some(ids)])]

\* The scene-marker filter find_markers builds from its arguments.
BuildSceneFilter(ids, mode) ==
    LET scene_filter == [created_at |-> None,
                         scene_created_at |-> None,
                         scene_updated_at |-> None,
                         updated_at |-> None,
                         performers |-> None,
                         scene_date |-> None,
                         scene_tags |-> None,
                         tag_id |-> None,
                         tags |-> None]
    IN  CASE mode = "Performers" ->
               [scene_filter EXCEPT !.performers =
                    Some([modifier |-> "INCLUDES", value |-> Some(ids)])]
          [] mode = "Tags" ->
               [scene_filter EXCEPT !.tags =
                    Some([depth |-> None, modifier |-> "INCLUDES", value |-> Some(ids)])]

\* variant: one page sized by the number of identifiers
MarkerVariablesPaged(ids, mode) ==
    [filter |-> Some([per_page |-> Some(Len(ids)),
                      page |-> Some(1),
                      q |-> None,
                      sort |-> None,
                      direction |-> None]),
     scene_marker_filter |-> Some(BuildSceneFilter(ids, mode))]

\* find_markers_query::Variables
MarkerVariables(ids, mode) ==
    [filter |-> Some([per_page |-> Some(UnboundedPageSize),
                      page |-> None,
                      q |-> None,
                      sort |-> None,
                      direction |-> None]),
     scene_marker_filter |-> Some(BuildSceneFilter(ids, mode))]

\* GraphQLQuery::build_query: the query document of the struct with its variables
BuildQuery(operation, variables) ==
    [operation_name |-> operation, variables |-> variables]

\* variant: the path separator left out
GraphqlUrlNoSlash(api_url) == api_url \o "graphql"

\* format!("{}/graphql", self.api_url)
GraphqlUrl(api_url) == api_url \o "/graphql"

\* self.client.post(url).json(&request_body).header("ApiKey", &self.api_key)
Post(url, request_body, api_key) ==
    [method |-> "POST",
     url |-> url,
     headers |-> [ApiKey |-> api_key, ContentType |-> "application/json"],
     json |-> request_body]

\* The request an operation sends, from the session and the call's arguments.
RequestFor(api, a) ==
    CASE a.op = "find_tags" ->
           Post(GraphqlUrl(api.api_url),
                BuildQuery("FindTagsQuery", EmptyVariables), api.api_key)
      [] a.op = "find_markers" ->
           Post(GraphqlUrl(api.api_url),
                BuildQuery("FindMarkersQuery", MarkerVariables(a.ids, a.mode)),
                api.api_key)
      [] a.op = "find_performers" ->
           Post(GraphqlUrl(api.api_url),
                BuildQuery("FindPerformersQuery", EmptyVariables), api.api_key)

\* The first poll of an operation's future: everything up to `.send().await`.
Issue(c, a) ==
    /\ session.some
    /\ pc[c] = "idle"
    /\ args' = [args EXCEPT ![c] = a]
    /\ wire' = [wire EXCEPT ![c] = Some(RequestFor(session.value, a))]
    /\ sent' = [sent EXCEPT ![c] = sent[c] + 1]
    /\ pc' = [pc EXCEPT ![c] = "send_await"]
    /\ UNCHANGED <<session, ctor, reply, decoded, outcome>>

FindTags(c) == Issue(c, [op |-> "find_tags", ids |-> <<>>, mode |-> "none"])

FindMarkers(c, ids, mode) == Issue(c, [op |-> "find_markers", ids |-> ids, mode |-> mode])

FindPerformers(c) == Issue(c, [op |-> "find_performers", ids |-> <<>>, mode |-> "none"])

(***************************************************************************)
(* The environment: the network and the remote server.                     *)
(***************************************************************************)
ServerRespond(c, status, body) ==
    /\ pc[c] = "send_await"
    /\ reply[c].kind = "none"
    /\ reply' = [reply EXCEPT ![c] = Http(status, body)]
    /\ UNCHANGED <<session, ctor, pc, args, wire, sent, decoded, outcome>>

TransportFail(c) ==
    /\ pc[c] = "send_await"
    /\ reply[c].kind = "none"
    /\ reply' = [reply EXCEPT ![c] = NetErr]
    /\ UNCHANGED <<session, ctor, pc, args, wire, sent, decoded, outcome>>

(***************************************************************************)
(* Response handling.                                                      *)
(***************************************************************************)
\* variant: only server errors are turned into an error
ErrorForStatusServerOnly(status) ==
    IF status >= 500 /\ status <= 599
       THEN ResErr("HttpStatus", status)
       ELSE ResOk(status)

\* reqwest's Response::error_for_status: an error for 4xx and 5xx statuses
ErrorForStatus(status) ==
    IF status >= 400 /\ status <= 599
       THEN ResErr("HttpStatus", status)
       ELSE ResOk(status)

\* The JSON name of the root field and of its list in each query's ResponseData
RootField(op) ==
    CASE op = "find_tags" -> [root |-> "findTags", list |-> "tags"]
      [] op = "find_markers" -> [root |-> "findSceneMarkers", list |-> "sceneMarkers"]
      [] op = "find_performers" -> [root |-> "findPerformers", list |-> "performers"]

\* serde's deserialization of `data` into the operation's ResponseData
DecodeData(op, d) ==
    IF [root |-> d.root, list |-> d.list] # RootField(op)
       THEN ResErr("Decode", 0)
       ELSE CASE op = "find_tags" ->
                   ResOk([find_tags |-> [tags |-> d.items]])
              [] op = "find_markers" ->
                   ResOk([find_scene_markers |-> [scene_markers |-> d.items]])
              [] op = "find_performers" ->
                   ResOk([find_performers |-> [performers |-> d.items]])

\* response.json::<Response<ResponseData>>().await
ResponseJson(op, body) ==
    CASE body.kind = "aborted" -> ResErr("Transport", 0)
      [] body.kind = "garbage" -> ResErr("Decode", 0)
      [] body.kind = "json" ->
           IF ~body.data.some
              THEN ResOk([data |-> None, errors |-> body.errors])
              ELSE LET d == DecodeData(op, body.data.value)
                   IN  IF d.ok
                          THEN ResOk([data |-> Some(d.value), errors |-> body.errors])
                          ELSE d

\* variant: the collection without its repeated records
ExtractDedup(op, data) ==
    CASE op = "find_tags" -> Dedup(data.find_tags.tags)
      [] op = "find_markers" -> Dedup(data.find_scene_markers.scene_markers)
      [] op = "find_performers" -> Dedup(data.find_performers.performers)

\* the nested collection of the operation's ResponseData
Extract(op, data) ==
    CASE op = "find_tags" -> data.find_tags.tags
      [] op = "find_markers" -> data.find_scene_markers.scene_markers
      [] op = "find_performers" -> data.find_performers.performers

\* response.data.unwrap() and the field access: None panics
UnwrapData(op, response) ==
    IF response.data.some
       THEN OutOk(Extract(op, response.data.value))
       ELSE Panicked

Finish(c, o) ==
    /\ pc' = [pc EXCEPT ![c] = "done"]
    /\ outcome' = [outcome EXCEPT ![c] = o]

\* variant: the session keeps one response slot that every call reads
SendResolvedShared(c) ==
    /\ pc[c] = "send_await"
    /\ \E d \in DOMAIN reply :
          /\ reply[d].kind # "none"
          /\ IF reply[d].kind = "neterr"
                THEN /\ pc' = [pc EXCEPT ![c] = "done"]
                     /\ outcome' = [outcome EXCEPT ![c] = OutErr("Transport", 0)]
                     /\ UNCHANGED decoded
                ELSE IF reply[d].status >= 400 /\ reply[d].status <= 599
                        THEN /\ pc' = [pc EXCEPT ![c] = "done"]
                             /\ outcome' = [outcome EXCEPT
                                               ![c] = OutErr("HttpStatus", reply[d].status)]
                             /\ UNCHANGED decoded
                        ELSE /\ pc' = [pc EXCEPT ![c] = "json_await"]
                             /\ decoded' = [decoded EXCEPT ![c] = TRUE]
                             /\ UNCHANGED outcome
    /\ UNCHANGED <<session, ctor, args, wire, sent, reply>>

\* `.send().await?.error_for_status()?` resumes with the network's answer
SendResolved(c) ==
    /\ pc[c] = "send_await"
    /\ reply[c].kind # "none"
    /\ IF reply[c].kind = "neterr"
          THEN Finish(c, OutErr("Transport", 0)) /\ UNCHANGED decoded
          ELSE LET st == ErrorForStatus(reply[c].status)
               IN  IF ~st.ok
                      THEN Finish(c, OutErr(st.kind, st.status)) /\ UNCHANGED decoded
                      ELSE /\ pc' = [pc EXCEPT ![c] = "json_await"]
                           /\ decoded' = [decoded EXCEPT ![c] = TRUE]
                           /\ UNCHANGED outcome
    /\ UNCHANGED <<session, ctor, args, wire, sent, reply>>

\* `response.json().await?`, `response.data.unwrap()` and the return
JsonResolved(c) ==
    /\ pc[c] = "json_await"
    /\ LET res == ResponseJson(args[c].op, reply[c].body)
       IN  IF ~res.ok
              THEN Finish(c, OutErr(res.kind, 0))
              ELSE Finish(c, UnwrapData(args[c].op, res.value))
    /\ UNCHANGED <<session, ctor, args, wire, sent, reply, decoded>>

\* The caller has taken the call's result; the slot serves the next call.
Return(c) ==
    /\ pc[c] = "done"
    /\ pc' = [pc EXCEPT ![c] = "idle"]
    /\ args' = [args EXCEPT ![c] = NoArgs]
    /\ wire' = [wire EXCEPT ![c] = None]
    /\ sent' = [sent EXCEPT ![c] = 0]
    /\ reply' = [reply EXCEPT ![c] = NoReply]
    /\ decoded' = [decoded EXCEPT ![c] = FALSE]
    /\ outcome' = [outcome EXCEPT ![c] = NoOutcome]
    /\ UNCHANGED <<session, ctor>>

(***************************************************************************)
(* Spec: one call at a time, with every input of the domains above.        *)
(***************************************************************************)
Next ==
    \/ \E url \in Urls, api_key \in Keys : New(url, api_key)
    \/ \E config \in Configs : FromConfig(config)
    \/ \E res \in ConfigResults : LoadConfig(res)
    \/ \E c \in Solo : FindTags(c)
    \/ \E c \in Solo, ids \in IdLists, mode \in FilterMode : FindMarkers(c, ids, mode)
    \/ \E c \in Solo : FindPerformers(c)
    \/ \E c \in Solo, status \in Statuses, body \in Bodies : ServerRespond(c, status, body)
    \/ \E c \in Solo : TransportFail(c)
    \/ \E c \in Solo : SendResolved(c)
    \/ \E c \in Solo : JsonResolved(c)
    \/ \E c \in Solo : Return(c)

Spec == Init /\ [][Next]_vars

(***************************************************************************)
(* SpecConc: NumCalls calls interleaved on one session.                    *)
(***************************************************************************)
ConcIds == {<<"2", "1">>}
ConcReplies == {NetErr,
                Http(401, Envelope(Some([root |-> "findTags", list |-> "tags",
                                         items |-> <<[id |-> "1"]>>]), None)),
                Http(200, Garbage),
                Http(200, Envelope(None, Some(<<"remote error">>))),
                Http(200, Envelope(Some([root |-> "findTags", list |-> "tags",
                                         items |-> <<[id |-> "2"], [id |-> "1"]>>]), None)),
                Http(200, Envelope(Some([root |-> "findSceneMarkers", list |-> "sceneMarkers",
                                         items |-> <<[id |-> "1"], [id |-> "1"]>>]), None))}

ServerReplies(c, r) ==
    IF r.kind = "neterr" THEN TransportFail(c) ELSE ServerRespond(c, r.status, r.body)

NextConc ==
    \/ \E config \in Configs : FromConfig(config)
    \/ \E c \in Calls : FindTags(c)
    \/ \E c \in Calls, ids \in ConcIds, mode \in FilterMode : FindMarkers(c, ids, mode)
    \/ \E c \in Calls : FindPerformers(c)
    \/ \E c \in Calls, r \in ConcReplies : ServerReplies(c, r)
    \/ \E c \in Calls : SendResolved(c)
    \/ \E c \in Calls : JsonResolved(c)
    \/ \E c \in Calls : Return(c)

SpecConc == Init /\ [][NextConc]_vars

(***************************************************************************)
(* Properties.                                                             *)
(***************************************************************************)
MarkersSent(c) == wire[c].some /\ args[c].op = "find_markers"
SceneFilterOf(c) == wire[c].value.json.variables.scene_marker_filter.value
OtherFilterFields == {"created_at", "updated_at", "scene_created_at",
                      "scene_updated_at", "scene_date", "scene_tags", "tag_id"}
Answered(c) == pc[c] \in {"json_await", "done"} /\ reply[c].kind = "http"
SuccessStatus(st) == st >= 200 /\ st <= 299

\* the body is a JSON envelope whose data has the shape of the operation's query
WellFormedFor(op, body) ==
    /\ body.kind = "json"
    /\ body.data.some
    /\ \/ op = "find_tags" /\ body.data.value.root = "findTags"
                           /\ body.data.value.list = "tags"
       \/ op = "find_markers" /\ body.data.value.root = "findSceneMarkers"
                              /\ body.data.value.list = "sceneMarkers"
       \/ op = "find_performers" /\ body.data.value.root = "findPerformers"
                                 /\ body.data.value.list = "performers"

\* C1: the scene-marker filter find_markers sends has exactly one of the
\* criteria performers and tags populated, the one the mode selects, and
\* every other filter field absent, for every identifier list and mode.
C1_ExactlyOneCriterion ==
    \A c \in Calls : MarkersSent(c) =>
        /\ wire[c].value.json.variables.scene_marker_filter.some
        /\ LET f == SceneFilterOf(c)
           IN  /\ f.performers.some # f.tags.some
               /\ f.performers.some <=> (args[c].mode = "Performers")
               /\ f.tags.some <=> (args[c].mode = "Tags")
               /\ \A k \in OtherFilterFields : ~f[k].some

C1_Witness ==
    \E c \in Calls : /\ MarkersSent(c)
                     /\ args[c].ids = <<>>
                     /\ args[c].mode = "Tags"
                     /\ SceneFilterOf(c).tags.some

\* C2: in mode Performers the performers criterion is exactly
\* { modifier: INCLUDES, value: ids }, ids unchanged (same elements, same
\* order, repetitions kept), and the tags criterion is absent.
C2_PerformersCriterion ==
    \A c \in Calls : (MarkersSent(c) /\ args[c].mode = "Performers") =>
        /\ SceneFilterOf(c).performers =
              Some([modifier |-> "INCLUDES", value |-> Some(args[c].ids)])
        /\ SceneFilterOf(c).tags = None

C2_Witness ==
    \E c \in Calls : /\ MarkersSent(c)
                     /\ args[c].mode = "Performers"
                     /\ args[c].ids = <<"2", "2">>
                     /\ SceneFilterOf(c).performers.value.value.value = <<"2", "2">>

\* C3: in mode Tags the tags criterion is exactly
\* { modifier: INCLUDES, value: ids, depth: absent }, ids unchanged, and the
\* performers criterion is absent.
C3_TagsCriterion ==
    \A c \in Calls : (MarkersSent(c) /\ args[c].mode = "Tags") =>
        /\ SceneFilterOf(c).tags =
              Some([depth |-> None, modifier |-> "INCLUDES", value |-> Some(args[c].ids)])
        /\ SceneFilterOf(c).performers = None

C3_Witness ==
    \E c \in Calls : /\ MarkersSent(c)
                     /\ args[c].mode = "Tags"
                     /\ args[c].ids = <<"2", "1">>
                     /\ SceneFilterOf(c).tags.value.value.value = <<"2", "1">>

\* C4: every find_markers request carries the find-filter with per_page = -1
\* and page, q, sort and direction absent, whatever the mode and the
\* identifier list.
C4_UnboundedPage ==
    \A c \in Calls : MarkersSent(c) =>
        wire[c].value.json.variables.filter =
            Some([per_page |-> Some(-1), page |-> None, q |-> None,
                  sort |-> None, direction |-> None])

C4_Witness ==
    \E c \in Calls :
        /\ MarkersSent(c)
        /\ Len(args[c].ids) = 2
        /\ wire[c].value.json.variables.filter.value.per_page = Some(-1)

\* C5 as stated: after any non-success status (outside 200..299) the call
\* ends with an HTTP-status error, the body is never parsed, and one
\* request was sent.
C5_NonSuccessIsStatusError ==
    \A c \in Calls : (Answered(c) /\ ~SuccessStatus(reply[c].status)) =>
        /\ pc[c] = "done"
        /\ outcome[c] = [kind |-> "HttpStatus", status |-> reply[c].status, value |-> <<>>]
        /\ ~decoded[c]
        /\ sent[c] = 1

\* C5, amended: after a client- or server-error status (400..599) the call
\* ends with an HTTP-status error carrying that status, the body is never
\* parsed into a result, and no second request is sent.
C5_ErrorStatusIsStatusError ==
    \A c \in Calls : (Answered(c) /\ reply[c].status >= 400 /\ reply[c].status <= 599) =>
        /\ pc[c] = "done"
        /\ outcome[c] = [kind |-> "HttpStatus", status |-> reply[c].status, value |-> <<>>]
        /\ ~decoded[c]
        /\ sent[c] = 1

C5_Witness ==
    \E c \in Calls : /\ pc[c] = "done"
                     /\ reply[c].kind = "http"
                     /\ reply[c].status = 401
                     /\ WellFormedFor(args[c].op, reply[c].body)
                     /\ Len(reply[c].body.data.value.items) = 2
                     /\ outcome[c].kind = "HttpStatus"

\* C6: after a success status and a well-formed envelope with data present
\* the call returns exactly the nested collection of the envelope: same
\* length, elements and order, with or without an errors list.
C6_ReturnsCollection ==
    \A c \in Calls :
        (/\ pc[c] = "done"
         /\ reply[c].kind = "http"
         /\ SuccessStatus(reply[c].status)
         /\ WellFormedFor(args[c].op, reply[c].body)) =>
            outcome[c] = [kind |-> "Ok", status |-> 0,
                          value |-> reply[c].body.data.value.items]

C6_Witness ==
    \E c \in Calls : /\ pc[c] = "done"
                     /\ args[c].op = "find_performers"
                     /\ reply[c].kind = "http"
                     /\ reply[c].status = 200
                     /\ WellFormedFor(args[c].op, reply[c].body)
                     /\ reply[c].body.errors.some
                     /\ reply[c].body.data.value.items = <<[id |-> "2"], [id |-> "2"]>>
                     /\ outcome[c].kind = "Ok"

\* C7: after a success status and an envelope whose data is absent the call
\* ends with a Protocol/decode error value; it does not crash.
C7_DataAbsentIsDecodeError ==
    \A c \in Calls :
        (/\ pc[c] = "done"
         /\ reply[c].kind = "http"
         /\ SuccessStatus(reply[c].status)
         /\ reply[c].body.kind = "json"
         /\ ~reply[c].body.data.some) =>
            outcome[c].kind = "Decode"

\* C8: every call sends at most one request and ends in exactly one of a
\* returned collection, a Transport error, an HTTP-status error or a
\* Protocol/decode error; a failed network call ends with a Transport error
\* without any response being read.
C8_OneRequestOneOutcome ==
    \A c \in Calls :
        /\ sent[c] <= 1
        /\ (pc[c] = "done") <=> (outcome[c].kind # "none")
        /\ pc[c] = "done" => outcome[c].kind \in {"Ok", "Transport", "HttpStatus", "Decode"}
        /\ (reply[c].kind = "neterr" /\ pc[c] # "send_await") =>
              /\ pc[c] = "done"
              /\ outcome[c].kind = "Transport"
              /\ ~decoded[c]

\* what a call with arguments a ends in when it runs alone and its request
\* is answered by r
AloneOutcome(a, r) ==
    IF r.kind = "neterr" THEN [kind |-> "Transport", status |-> 0, value |-> <<>>]
    ELSE IF r.status >= 400 /\ r.status <= 599
       THEN [kind |-> "HttpStatus", status |-> r.status, value |-> <<>>]
    ELSE IF r.body.kind = "aborted" THEN [kind |-> "Transport", status |-> 0, value |-> <<>>]
    ELSE IF r.body.kind = "garbage" THEN [kind |-> "Decode", status |-> 0, value |-> <<>>]
    ELSE IF ~r.body.data.some THEN [kind |-> "Panic", status |-> 0, value |-> <<>>]
    ELSE IF ~WellFormedFor(a.op, r.body) THEN [kind |-> "Decode", status |-> 0, value |-> <<>>]
    ELSE [kind |-> "Ok", status |-> 0, value |-> r.body.data.value.items]

C9_IsolationInv ==
    \A c \in Calls :
        /\ wire[c].some => wire[c].value = RequestFor(session.value, args[c])
        /\ pc[c] \in {"json_await", "done"} => reply[c].kind # "none"
        /\ pc[c] = "done" => outcome[c] = AloneOutcome(args[c], reply[c])

C9_SessionFrozen == session.some => session' = session

\* C9: under any interleaving of calls on one session the session's base URL
\* and API key never change after construction, and each call's request and
\* outcome are those of the call run alone on its own arguments and the
\* answer to its own request.
C9_Isolation == []C9_IsolationInv /\ [][C9_SessionFrozen]_vars

C9_Witness ==
    \E c, d \in Calls : /\ c # d
                        /\ pc[c] = "done" /\ pc[d] = "json_await"
                        /\ args[c].op = "find_markers" /\ args[d].op = "find_tags"
                        /\ outcome[c].kind = "HttpStatus"
                        /\ reply[d].status = 200

\* C10: every request is a POST to the base URL given at construction
\* followed by "/graphql", with the ApiKey header equal to the API key given
\* at construction; find_tags and find_performers send no variables.
C10_RequestShape ==
    \A c \in Calls : wire[c].some =>
        /\ ctor.ok
        /\ wire[c].value.method = "POST"
        /\ wire[c].value.url = ctor.url \o "/graphql"
        /\ wire[c].value.headers.ApiKey = ctor.key
        /\ args[c].op \in {"find_tags", "find_performers"} =>
              DOMAIN wire[c].value.json.variables = {}

C10_Witness ==
    \E c \in Calls : /\ wire[c].some
                     /\ args[c].op = "find_performers"
                     /\ ctor.how = "load_config"
                     /\ wire[c].value.url = "http://cfg:9999//graphql"
                     /\ wire[c].value.headers.ApiKey = "key-C"

====
